---- MODULE Spec2Model ----
(***************************************************************************)
(* Model of src/streamer.py: GitHubAutoSetup.run and the provider it talks *)
(* to.  One action per network round trip (or local check) of run(); the   *)
(* provider (repository, tracked files, secret slots, public key) is the   *)
(* environment and answers either faithfully or with an injected fault.    *)
(***************************************************************************)
EXTENDS Integers, Sequences, FiniteSets, TLC

\* ---------------------------------------------------------------- bounds
MaxRuns == 2        \* invocations of main() against the same remote
MaxFaults == 1      \* provider / transport faults injected over all runs
MaxExt == 1         \* writes by an external writer over all runs
MaxMarker == 1      \* revision markers are the strings of length 0..MaxMarker

\* ------------------------------------------------------------- data terms
None == [none |-> TRUE]
Some(v) == [none |-> FALSE, val |-> v]

Plain(s) == [tag |-> "plain", v |-> s]
B64(t) == [tag |-> "b64", of |-> t]
B64Decode(t) == t.of
Seal(pk, t) == [tag |-> "sealed", pk |-> pk, of |-> t]

\* a revision marker is a string, modelled as the sequence of its characters
MarkerOf(n) == [j \in 1..n |-> "f"]
Markers == {MarkerOf(n) : n \in 0..MaxMarker}

\* Python truthiness of `sha` (None or a str)
Truthy(x) == (~x.none) /\ Len(x.val) > 0

\* ------------------------------------------------------- program constants
streamer_file == "streamer.py"
requirements_file == "requirements.txt"
workflow_template == ".github/workflows/youtube-live.yml"
TrackedPaths == <<streamer_file, requirements_file, workflow_template>>
NumFiles == 3
Files == 1..NumFiles
FileContent == <<"#!/usr/bin/env python3", "requests", "name: youtube-live">>

SecretNames == <<"YOUTUBE_STREAM_KEY", "VIDEO_URL", "VIDEO_QUALITY", "ASPECT_RATIO">>
NumSecrets == 4
Slots == 1..NumSecrets

\* the six lines of setup_github.txt
ConfigLines == <<"sk_live_abc", "https://example/video.mp4", "1080p", "16:9", "ghp_tok", "my-repo">>
SetupFiles == {ConfigLines, SubSeq(ConfigLines, 1, 5)}

\* the provider's side
Login == "octo"
RemoteKeyId == "kid1"
RemotePk == "pk32"
BadPk == "short"
ValidKeys == {RemotePk}
TransportFault == 0
FaultStatuses == {TransportFault, 500}
NotIssued == -1

VARIABLES
  filesPresent,     \* the three tracked files exist in the working directory
  setup_lines,      \* non-blank lines of setup_github.txt
  tokenValid,       \* the provider accepts the bearer token
  NACL_AVAILABLE,   \* module flag set by the import at load time
  blob,             \* the marker the provider gives to content this program writes
  repoExists, files, slots,                     \* remote state
  self,             \* fields of the GitHubAutoSetup object
  pc, idx, sha, key,                            \* position in run() and locals
  run, prevOutcome, haltedAt,
  faults, runFaults, extCount, runExt,
  sent,             \* outbound requests of the current run
  numPost, numKeyFetch,
  numCalls,         \* network calls issued in the current run
  userSt,           \* status of the identity check
  repoProbeSt, postSt, fileProbeSt, probeSha, filePutSt, putBody, uploadRet,
  keySt, secSt, secOk, setSecretsRet

envVars == <<filesPresent, setup_lines, tokenValid, NACL_AVAILABLE, blob>>
remoteVars == <<repoExists, files, slots>>
fileHist == <<fileProbeSt, probeSha, filePutSt, putBody, uploadRet>>
secHist == <<keySt, secSt, secOk, setSecretsRet>>
repoHist == <<numPost, repoProbeSt, postSt>>
faultVars == <<faults, runFaults>>
extVars == <<extCount, runExt>>
runVars == <<run, prevOutcome>>
vars == <<envVars, remoteVars, self, pc, idx, sha, key, runVars, haltedAt,
          faultVars, extVars, sent, numCalls, userSt, repoHist, numKeyFetch,
          fileHist, secHist>>

\* ------------------------------------------------------------ the provider
\* the answers the provider may give when the faithful answer is `st`
Responses(st) ==
  {[status |-> st, fault |-> FALSE]} \cup
  {[status |-> s, fault |-> TRUE] :
      s \in IF faults < MaxFaults THEN FaultStatuses \ {st} ELSE {}}

CountFault(r) ==
  /\ faults' = IF r.fault THEN faults + 1 ELSE faults
  /\ runFaults' = IF r.fault THEN runFaults + 1 ELSE runFaults

Headers == [Authorization |-> <<"token", self.github_token>>,
            Accept |-> "application/vnd.github.v3+json"]
NoBody == [empty |-> TRUE]
Request(m, u, b) == [method |-> m, url |-> u, headers |-> Headers, body |-> b]

\* ------------------------------------------------------------------- Init
FreshSelf == [stream_key |-> None, video_url |-> None, quality |-> None,
              aspect_ratio |-> None, github_token |-> None,
              repo_name |-> None, username |-> None]

RunLocalsInit ==
  /\ self = FreshSelf
  /\ pc = "check_files"
  /\ idx = 0
  /\ sha = None
  /\ key = None
  /\ haltedAt = "none"
  /\ runFaults = 0
  /\ runExt = 0
  /\ sent = {}
  /\ numPost = 0
  /\ numKeyFetch = 0
  /\ numCalls = 0
  /\ userSt = NotIssued
  /\ repoProbeSt = NotIssued
  /\ postSt = NotIssued
  /\ fileProbeSt = [p \in Files |-> NotIssued]
  /\ probeSha = [p \in Files |-> None]
  /\ filePutSt = [p \in Files |-> NotIssued]
  /\ putBody = [p \in Files |-> NoBody]
  /\ uploadRet = [p \in Files |-> None]
  /\ keySt = NotIssued
  /\ secSt = [s \in Slots |-> NotIssued]
  /\ secOk = [s \in Slots |-> None]
  /\ setSecretsRet = None

Init ==
  /\ filesPresent \in BOOLEAN
  /\ setup_lines \in SetupFiles
  /\ tokenValid \in BOOLEAN
  /\ NACL_AVAILABLE \in BOOLEAN
  /\ blob \in Markers
  /\ repoExists \in BOOLEAN
  /\ files = [p \in Files |-> None]
  /\ slots = [s \in Slots |-> None]
  /\ run = 1
  /\ prevOutcome = "none"
  /\ faults = 0
  /\ extCount = 0
  /\ RunLocalsInit

\* ------------------------------------------------------------ local steps
Halt(step) == pc' = "halted" /\ haltedAt' = step
\* an exception handler that repeats the step instead of ending the run
CrashRetry(step) == pc' = pc /\ haltedAt' = haltedAt

\* an uncaught exception leaves run() and ends the process
Crash(step) == pc' = "crashed" /\ haltedAt' = step

\* check_files(): every must-file exists
check_files ==
  /\ pc = "check_files"
  /\ IF filesPresent
       THEN pc' = "read_setup_config" /\ haltedAt' = haltedAt
       ELSE Halt("check_files")
  /\ UNCHANGED <<envVars, remoteVars, self, idx, sha, key, runVars, faultVars,
                 extVars, sent, numCalls, userSt, repoHist, numKeyFetch, fileHist, secHist>>

\* read_setup_config(): six lines or False
read_setup_config ==
  /\ pc = "read_setup_config"
  /\ IF Len(setup_lines) < 6
       THEN Halt("read_setup_config") /\ self' = self
       ELSE /\ self' = [self EXCEPT !.stream_key = Some(setup_lines[1]),
                                    !.video_url = Some(setup_lines[2]),
                                    !.quality = Some(setup_lines[3]),
                                    !.aspect_ratio = Some(setup_lines[4]),
                                    !.github_token = Some(setup_lines[5]),
                                    !.repo_name = Some(setup_lines[6])]
            /\ pc' = "verify_github_token"
            /\ haltedAt' = haltedAt
  /\ UNCHANGED <<envVars, remoteVars, idx, sha, key, runVars, faultVars,
                 extVars, sent, numCalls, userSt, repoHist, numKeyFetch, fileHist, secHist>>

\* ---------------------------------------------------------- network steps
UserUrl == <<"user">>
UserStatus == IF tokenValid THEN 200 ELSE 401

\* an identity check that accepts any answer
TokenOkAny(st) == st # TransportFault

\* line 104: the identity check succeeded
TokenOk(st) == st = 200

\* verify_github_token(): GET /user, any exception is caught and gives False
verify_github_token ==
  /\ pc = "verify_github_token"
  /\ \E r \in Responses(UserStatus) :
       /\ CountFault(r)
       /\ numCalls' = numCalls + 1
       /\ sent' = sent \cup {Request("GET", UserUrl, NoBody)}
       /\ userSt' = r.status
       /\ IF TokenOk(r.status)
            THEN /\ self' = [self EXCEPT !.username = Some(Login)]
                 /\ pc' = "create_github_repo"
                 /\ haltedAt' = haltedAt
            ELSE Halt("verify_github_token") /\ self' = self
  /\ UNCHANGED <<envVars, remoteVars, idx, sha, key, runVars, extVars,
                 repoHist, numKeyFetch, fileHist, secHist>>

RepoUrl == <<"repos", self.username.val, self.repo_name.val>>
CreateUrl == <<"user", "repos">>
RepoStatus == IF repoExists THEN 200 ELSE 404

\* a create_github_repo that never takes the reuse path
IsReuseNever(st) == FALSE

\* line 127: the probe found the repository
IsReuse(st) == st = 200

\* create_github_repo(), first request: the existence probe
create_github_repo_probe ==
  /\ pc = "create_github_repo"
  /\ \E r \in Responses(RepoStatus) :
       /\ CountFault(r)
       /\ numCalls' = numCalls + 1
       /\ sent' = sent \cup {Request("GET", RepoUrl, NoBody)}
       /\ repoProbeSt' = r.status
       /\ IF r.status = TransportFault
            THEN Crash("create_github_repo") /\ idx' = idx
            ELSE IF IsReuse(r.status)
              THEN pc' = "upload_probe" /\ idx' = 1 /\ haltedAt' = haltedAt
              ELSE pc' = "create_post" /\ idx' = idx /\ haltedAt' = haltedAt
  /\ UNCHANGED <<userSt, envVars, remoteVars, self, sha, key, runVars, extVars,
                 numPost, postSt, numKeyFetch, fileHist, secHist>>

CreateData == [name |-> self.repo_name.val, private |-> FALSE,
               description |-> "24/7 YouTube Auto Streamer", auto_init |-> TRUE]
CreateStatus == IF repoExists THEN 422 ELSE 201

\* a creation test on the wrong status
CreateOkWrong(st) == st = 200

\* line 139: the creation succeeded
CreateOk(st) == st = 201

\* create_github_repo(), second request: the creation POST
create_github_repo_post ==
  /\ pc = "create_post"
  /\ \E r \in Responses(CreateStatus) :
       /\ CountFault(r)
       /\ numCalls' = numCalls + 1
       /\ sent' = sent \cup {Request("POST", CreateUrl, CreateData)}
       /\ numPost' = numPost + 1
       /\ postSt' = r.status
       /\ repoExists' = IF r.status = 201 THEN TRUE ELSE repoExists
       /\ IF r.status = TransportFault
            THEN Crash("create_github_repo") /\ idx' = idx
            ELSE IF CreateOk(r.status)
              THEN pc' = "upload_probe" /\ idx' = 1 /\ haltedAt' = haltedAt
              ELSE Halt("create_github_repo") /\ idx' = idx
  /\ UNCHANGED <<userSt, envVars, files, slots, self, sha, key, runVars, extVars,
                 repoProbeSt, numKeyFetch, fileHist, secHist>>

ContentsUrl(p) == RepoUrl \o <<"contents", TrackedPaths[p]>>
ContentsStatus(p) == IF repoExists /\ ~files[p].none THEN 200 ELSE 404

\* upload_file(), first request: probe for an existing revision marker
upload_file_probe ==
  /\ pc = "upload_probe"
  /\ \E r \in Responses(ContentsStatus(idx)) :
       /\ CountFault(r)
       /\ numCalls' = numCalls + 1
       /\ sent' = sent \cup {Request("GET", ContentsUrl(idx), NoBody)}
       /\ fileProbeSt' = [fileProbeSt EXCEPT ![idx] = r.status]
       /\ IF r.status = TransportFault
            THEN Crash("upload_file") /\ sha' = sha /\ probeSha' = probeSha
            ELSE /\ sha' = IF r.status = 200 THEN Some(files[idx].val) ELSE None
                 /\ probeSha' = [probeSha EXCEPT ![idx] = sha']
                 /\ pc' = "upload_put"
                 /\ haltedAt' = haltedAt
  /\ UNCHANGED <<userSt, envVars, remoteVars, self, idx, key, runVars, extVars,
                 repoHist, numKeyFetch, filePutSt, putBody, uploadRet, secHist>>

\* lines 163-170: the body of the write
PutData(p, marker) ==
  IF Truthy(marker)
    THEN [message |-> <<"Upload", TrackedPaths[p]>>,
          content |-> B64(Plain(FileContent[p])), branch |-> "main",
          sha |-> marker.val]
    ELSE [message |-> <<"Upload", TrackedPaths[p]>>,
          content |-> B64(Plain(FileContent[p])), branch |-> "main"]

\* the provider's conditional write: the marker must be the stored one
WriteStatus(p, data) ==
  IF ~repoExists THEN 404
  ELSE IF files[p].none
    THEN (IF "sha" \in DOMAIN data THEN 422 ELSE 201)
    ELSE (IF "sha" \notin DOMAIN data THEN 422
          ELSE IF data.sha = files[p].val THEN 200 ELSE 409)

\* line 173: upload_file's result
UploadOk(st) == st \in {200, 201}

\* an upload_all_files that returns after the first file
AfterUploadSkip(ok, p) == "set_secrets"

\* upload_all_files() discards upload_file's result
AfterUpload(ok, p) == IF p < NumFiles THEN "upload_probe" ELSE "set_secrets"

\* upload_file(), second request: the write
upload_file_put ==
  /\ pc = "upload_put"
  /\ LET data == PutData(idx, sha) IN
     \E r \in Responses(WriteStatus(idx, data)) :
       /\ CountFault(r)
       /\ numCalls' = numCalls + 1
       /\ sent' = sent \cup {Request("PUT", ContentsUrl(idx), data)}
       /\ filePutSt' = [filePutSt EXCEPT ![idx] = r.status]
       /\ putBody' = [putBody EXCEPT ![idx] = data]
       /\ files' = IF (~r.fault) /\ r.status \in {200, 201}
                     THEN [files EXCEPT ![idx] = Some(blob)]
                     ELSE files
       /\ IF r.status = TransportFault
            THEN Crash("upload_file") /\ idx' = idx /\ uploadRet' = uploadRet
            ELSE /\ uploadRet' = [uploadRet EXCEPT ![idx] = Some(UploadOk(r.status))]
                 /\ pc' = AfterUpload(UploadOk(r.status), idx)
                 /\ idx' = IF idx < NumFiles THEN idx + 1 ELSE 1
                 /\ haltedAt' = haltedAt
  /\ UNCHANGED <<userSt, envVars, repoExists, slots, self, sha, key, runVars, extVars,
                 repoHist, numKeyFetch, fileProbeSt, probeSha, secHist>>

\* lines 195-200: the secrets mapping, in insertion order
SecretValue(s) ==
  <<self.stream_key.val, self.video_url.val, self.quality.val, self.aspect_ratio.val>>[s]

KeyUrl == RepoUrl \o <<"actions", "secrets", "public-key">>
SecretUrl(s) == RepoUrl \o <<"actions", "secrets", SecretNames[s]>>

\* the answers to the public-key fetch: the repository's key, a fault status,
\* or a 200 whose key bytes are not a valid public key
KeyResponses ==
  {[status |-> r.status, fault |-> r.fault,
    key |-> [key |-> B64(Plain(RemotePk)), key_id |-> RemoteKeyId]] :
      r \in Responses(IF repoExists THEN 200 ELSE 404)} \cup
  {[status |-> 200, fault |-> TRUE,
    key |-> [key |-> B64(Plain(BadPk)), key_id |-> RemoteKeyId]] :
      x \in IF faults < MaxFaults /\ repoExists THEN {0} ELSE {}}

\* a guard that only catches a missing repository
KeyFetchFailedLax(st) == st = 404

\* line 211: the guard on the key fetch
KeyFetchFailed(st) == st # 200

\* set_secrets(), first request: the public-key fetch (lines 207-219)
set_secrets_fetch ==
  /\ pc = "set_secrets"
  /\ \E r \in KeyResponses :
       /\ CountFault(r)
       /\ numCalls' = numCalls + 1
       /\ sent' = sent \cup {Request("GET", KeyUrl, NoBody)}
       /\ numKeyFetch' = numKeyFetch + 1
       /\ keySt' = r.status
       /\ IF r.status = TransportFault
            THEN /\ Crash("set_secrets")
                 /\ UNCHANGED <<key, idx, setSecretsRet>>
            ELSE IF KeyFetchFailed(r.status)
              THEN /\ setSecretsRet' = Some(FALSE)
                   /\ pc' = "done"
                   /\ UNCHANGED <<key, idx, haltedAt>>
              ELSE /\ key' = Some(r.key)
                   /\ setSecretsRet' = setSecretsRet
                   /\ IF NACL_AVAILABLE
                        THEN pc' = "secret_put" /\ idx' = 1 /\ haltedAt' = haltedAt
                        ELSE Crash("set_secrets") /\ idx' = idx
  /\ UNCHANGED <<userSt, envVars, remoteVars, self, sha, runVars, extVars, repoHist,
                 fileHist, secSt, secOk>>

\* PublicKey(...) accepts the decoded bytes
KeyFormatOk(public_key) == B64Decode(public_key).v \in ValidKeys

\* an encrypt that only encodes the value
encryptUnsealed(public_key, value) ==
  B64(Plain(value))

\* lines 221-225: encrypt(public_key, value)
encrypt(public_key, value) ==
  B64(Seal(B64Decode(public_key).v, Plain(value)))

\* a request body whose key_id is not the fetched one
SecretDataWrongId(s) == [encrypted_value |-> encrypt(key.val.key, SecretValue(s)),
                         key_id |-> SecretNames[s]]

\* lines 229-235: the body of a secret write
SecretData(s) == [encrypted_value |-> encrypt(key.val.key, SecretValue(s)),
                  key_id |-> key.val.key_id]

SecretStatus(s, data) ==
  IF ~repoExists THEN 404
  ELSE IF data.key_id # RemoteKeyId THEN 422
  ELSE IF slots[s].none THEN 201 ELSE 204

\* line 237: the per-secret outcome
SecretOk(st) == st \in {201, 204}

\* a loop that fetches the key again for every secret
SecretLoopRefetch(ok, s) == IF s < NumSecrets THEN "set_secrets" ELSE "done"

\* a loop that stops at the first rejected secret
SecretLoopAbort(ok, s) == IF ok /\ s < NumSecrets THEN "secret_put" ELSE "done"

\* lines 228, 242: the loop goes on to the next secret, then returns True
SecretLoopNext(ok, s) == IF s < NumSecrets THEN "secret_put" ELSE "done"

\* line 242: set_secrets' result once the loop has ended
SetSecretsResult(outcomes) == TRUE

\* set_secrets(), one iteration of the loop (lines 228-242)
set_secrets_put ==
  /\ pc = "secret_put"
  /\ IF ~KeyFormatOk(key.val.key)
       THEN /\ Crash("set_secrets")
            /\ UNCHANGED <<slots, idx, faultVars, sent, numCalls, secHist>>
       ELSE LET data == SecretData(idx) IN
            \E r \in Responses(SecretStatus(idx, data)) :
              /\ CountFault(r)
              /\ numCalls' = numCalls + 1
              /\ sent' = sent \cup {Request("PUT", SecretUrl(idx), data)}
              /\ secSt' = [secSt EXCEPT ![idx] = r.status]
              /\ slots' = IF (~r.fault) /\ r.status \in {201, 204}
                            THEN [slots EXCEPT ![idx] = Some(data.encrypted_value)]
                            ELSE slots
              /\ keySt' = keySt
              /\ IF r.status = TransportFault
                   THEN /\ Crash("set_secrets")
                        /\ UNCHANGED <<idx, secOk, setSecretsRet>>
                   ELSE /\ secOk' = [secOk EXCEPT ![idx] = Some(SecretOk(r.status))]
                        /\ pc' = SecretLoopNext(SecretOk(r.status), idx)
                        /\ idx' = IF idx < NumSecrets THEN idx + 1 ELSE idx
                        /\ setSecretsRet' = IF pc' = "done"
                                              THEN Some(SetSecretsResult(secOk'))
                                              ELSE setSecretsRet
                        /\ haltedAt' = haltedAt
  /\ UNCHANGED <<userSt, envVars, repoExists, files, self, sha, key, runVars, extVars,
                 repoHist, numKeyFetch, fileHist>>

\* ------------------------------------------------------------ environment
Ended == pc \in {"done", "halted", "crashed"}

\* main(): the program is run again against the same remote
main ==
  /\ Ended
  /\ run < MaxRuns
  /\ run' = run + 1
  /\ prevOutcome' = pc
  /\ self' = FreshSelf
  /\ pc' = "check_files"
  /\ idx' = 0
  /\ sha' = None
  /\ key' = None
  /\ haltedAt' = "none"
  /\ runFaults' = 0
  /\ runExt' = 0
  /\ sent' = {}
  /\ numPost' = 0
  /\ numKeyFetch' = 0
  /\ numCalls' = 0
  /\ userSt' = NotIssued
  /\ repoProbeSt' = NotIssued
  /\ postSt' = NotIssued
  /\ fileProbeSt' = [p \in Files |-> NotIssued]
  /\ probeSha' = [p \in Files |-> None]
  /\ filePutSt' = [p \in Files |-> NotIssued]
  /\ putBody' = [p \in Files |-> NoBody]
  /\ uploadRet' = [p \in Files |-> None]
  /\ keySt' = NotIssued
  /\ secSt' = [s \in Slots |-> NotIssued]
  /\ secOk' = [s \in Slots |-> None]
  /\ setSecretsRet' = None
  /\ UNCHANGED <<envVars, remoteVars, faults, extCount>>

\* another writer commits to the tracked path the run is working on, before
\* its probe or between its probe and its write (a commit to another tracked
\* path is seen by the run only when it reaches that path)
ExternalWrite ==
  /\ repoExists
  /\ pc \in {"upload_probe", "upload_put"}
  /\ extCount < MaxExt
  /\ \E m \in Markers :
       /\ files[idx] # Some(m)
       /\ files' = [files EXCEPT ![idx] = Some(m)]
  /\ extCount' = extCount + 1
  /\ runExt' = runExt + 1
  /\ UNCHANGED <<envVars, repoExists, slots, self, pc, idx, sha, key, runVars,
                 haltedAt, faultVars, sent, numCalls, userSt, repoHist, numKeyFetch, fileHist, secHist>>

Next ==
  \/ check_files
  \/ read_setup_config
  \/ verify_github_token
  \/ create_github_repo_probe
  \/ create_github_repo_post
  \/ upload_file_probe
  \/ upload_file_put
  \/ set_secrets_fetch
  \/ set_secrets_put
  \/ main
  \/ ExternalWrite

Spec == Init /\ [][Next]_vars

TypeOK ==
  /\ pc \in {"check_files", "read_setup_config", "verify_github_token",
             "create_github_repo", "create_post", "upload_probe", "upload_put",
             "set_secrets", "secret_put", "done", "halted", "crashed"}
  /\ run \in 1..MaxRuns
  /\ faults \in 0..MaxFaults
  /\ extCount \in 0..MaxExt
  /\ numPost \in 0..1
  /\ idx \in 0..NumSecrets

\* ------------------------------------------------------------ properties
HttpStatus(st) == st \notin {NotIssued, TransportFault}
AllFilesWritten == \A p \in Files : filePutSt[p] \in {200, 201}

\* C1: success is reported only after every file write returned 200/201 and
\* the public-key fetch returned 200.
C1_SuccessOnlyAfterAll ==
  pc = "done" => (AllFilesWritten /\ keySt = 200)

\* C2: once the provider has rejected the write of a tracked file, no later
\* file is probed or written, the key is not fetched and no secret is written.
C2_RejectedWriteHalts ==
  \A p \in Files :
    (HttpStatus(filePutSt[p]) /\ filePutSt[p] \notin {200, 201}) =>
      /\ \A q \in Files : q > p => (fileProbeSt[q] = NotIssued /\ filePutSt[q] = NotIssued)
      /\ keySt = NotIssued
      /\ \A s \in Slots : secSt[s] = NotIssued

\* C3: the creation POST is issued only when the existence probe returned 404.
C3_PostOnlyAfter404 ==
  numPost > 0 => repoProbeSt = 404

\* C4: a probe answered 200 takes the reuse path: the step leaves the remote
\* state as it was and issues no creation POST; no run issues two POSTs.
C4_ReuseDoesNotMutate ==
  [][ /\ (pc = "create_github_repo" /\ repoProbeSt' = 200) =>
           (pc' = "upload_probe" /\ UNCHANGED remoteVars)
      /\ repoProbeSt' = 200 => numPost' = 0
      /\ numPost' <= 1 ]_vars

C4_Witness ==
  repoProbeSt = 200 /\ pc = "done" /\ numPost = 0

\* C5: in a second run after a completed first run, with no external writer
\* and a provider that answers faithfully, no creation POST is issued and
\* every write carries the stored marker and is accepted.
C5_SecondRunAccepted ==
  (run = 2 /\ prevOutcome = "done" /\ runFaults = 0 /\ extCount = 0) =>
    /\ numPost = 0
    /\ \A p \in Files : filePutSt[p] # NotIssued => filePutSt[p] \in {200, 201}

\* C6: the write omits the marker when the probe did not return 200 and
\* carries exactly the probed marker when it did.
C6_MarkerEchoed ==
  \A p \in Files : filePutSt[p] # NotIssued =>
    IF fileProbeSt[p] = 200
      THEN "sha" \in DOMAIN putBody[p] /\ putBody[p].sha = probeSha[p].val
      ELSE "sha" \notin DOMAIN putBody[p]

\* C7: the public-key fetch is issued at most once per run.
C7_KeyFetchedOnce ==
  numKeyFetch <= 1

C7_Witness ==
  numKeyFetch = 1 /\ pc = "done" /\ \A s \in Slots : HttpStatus(secSt[s])

\* C8: after the key fetch, a secret write answered with any HTTP status does
\* not stop the loop, so all four slots are written, and a slot is recorded
\* as successful exactly when its own write returned 201 or 204.
C8_SecretIsolation ==
  /\ \A s \in Slots :
       /\ HttpStatus(secSt[s]) => secOk[s] = Some(secSt[s] \in {201, 204})
       /\ secOk[s] # None => HttpStatus(secSt[s])
       /\ HttpStatus(secSt[s]) =>
            \/ pc = "secret_put" /\ idx > s
            \/ pc = "done" /\ \A t \in Slots : HttpStatus(secSt[t])
            \/ pc = "crashed" /\ \E t \in Slots : t > s /\ secSt[t] = TransportFault
  /\ (pc = "done" /\ keySt = 200) => \A s \in Slots : HttpStatus(secSt[s])

C8_Witness ==
  /\ pc = "done"
  /\ \E s \in Slots :
       /\ secSt[s] = 500 /\ secOk[s] = Some(FALSE)
       /\ \A t \in Slots \ {s} : secSt[t] \in {201, 204} /\ secOk[t] = Some(TRUE)

\* C9: set_secrets reports success exactly when all four secret writes
\* returned 201 or 204.
C9_ResultIsConjunction ==
  setSecretsRet # None =>
    (setSecretsRet.val <=> \A s \in Slots : secSt[s] \in {201, 204})

\* the strings a term exposes to whoever reads it without the private key
RECURSIVE Exposed(_)
Exposed(t) ==
  IF t.tag = "plain" THEN {t.v}
  ELSE IF t.tag = "b64" THEN Exposed(t.of)
  ELSE {}

ExposedInBody(b) ==
  IF "encrypted_value" \in DOMAIN b THEN Exposed(b.encrypted_value) \cup {b.key_id}
  ELSE IF "content" \in DOMAIN b
    THEN Exposed(b.content) \cup {b.message[2], b.branch}
           \cup (IF "sha" \in DOMAIN b THEN {"sha"} ELSE {})
  ELSE IF "name" \in DOMAIN b THEN {b.name, b.description}
  ELSE {}

ExposedIn(req) ==
  {req.url[k] : k \in DOMAIN req.url}
    \cup {req.headers.Authorization[2].val, req.headers.Accept}
    \cup ExposedInBody(req.body)

\* C10: no request exposes one of the four configuration values; a value is
\* sent only sealed under the fetched key, in the write to its own slot.
C10_NoPlaintextSent ==
  sent # {} =>
    LET values == {SecretValue(s) : s \in Slots} IN
    \A req \in sent :
      /\ ExposedIn(req) \cap values = {}
      /\ "encrypted_value" \in DOMAIN req.body =>
           \E s \in Slots :
             /\ req.url = SecretUrl(s)
             /\ req.body.encrypted_value = B64(Seal(RemotePk, Plain(SecretValue(s))))

C10_Witness ==
  /\ pc = "done"
  /\ \A s \in Slots : \E req \in sent :
       req.url = SecretUrl(s) /\ "encrypted_value" \in DOMAIN req.body

\* C11: a missing tracked file or a short setup file halts the run before
\* any network call, and an identity check not answered 200 halts it with
\* the identity check as the only call: no POST and no PUT is issued.
C11_EarlyFailureNoMutation ==
  /\ (~filesPresent \/ Len(setup_lines) < 6) => (sent = {} /\ numCalls = 0)
  /\ (userSt # NotIssued /\ userSt # 200) =>
       /\ pc = "halted" /\ haltedAt = "verify_github_token"
       /\ numCalls = 1 /\ numPost = 0
       /\ \A req \in sent : req.method = "GET" /\ req.url = UserUrl

C11_Witness ==
  pc = "halted" /\ userSt = 401 /\ numCalls = 1

TransportSeen ==
  \/ TransportFault \in {userSt, repoProbeSt, postSt, keySt}
  \/ \E p \in Files : TransportFault \in {fileProbeSt[p], filePutSt[p]}
  \/ \E s \in Slots : secSt[s] = TransportFault

\* C12: after a call that ended in a transport fault the run has ended and
\* issues no further call, and no call of a run is issued twice.
C12_TransportFaultHalts ==
  [][ /\ TransportSeen' => pc' \in {"halted", "crashed"}
      /\ (TransportSeen /\ run' = run) => (sent' = sent /\ numCalls' = numCalls)
      /\ numCalls' = Cardinality(sent') ]_vars

C12_Witness ==
  pc = "crashed" /\ filePutSt[2] = TransportFault /\ numCalls > 0

\* C13: a first run on a repository that does not exist yet, with no fault and
\* no other writer, ends in done after one creation POST, three writes without
\* marker, one key fetch and four secret writes, all of them successful.
C13_FreshEndToEnd ==
  (run = 1 /\ faults = 0 /\ extCount = 0 /\ repoProbeSt = 404 /\ NACL_AVAILABLE
     /\ Ended) =>
    /\ pc = "done"
    /\ numPost = 1 /\ postSt = 201
    /\ \A p \in Files :
         /\ fileProbeSt[p] = 404 /\ filePutSt[p] = 201
         /\ "sha" \notin DOMAIN putBody[p]
         /\ uploadRet[p] = Some(TRUE)
    /\ numKeyFetch = 1 /\ keySt = 200
    /\ \A s \in Slots : secSt[s] = 201 /\ secOk[s] = Some(TRUE)
    /\ numCalls = 3 + 2 * NumFiles + 1 + NumSecrets

C13_Witness ==
  /\ run = 1 /\ faults = 0 /\ extCount = 0 /\ repoProbeSt = 404 /\ pc = "done"
  /\ \A s \in Slots : ~slots[s].none

\* position of the run in the fixed sequence of steps of run()
PcRank ==
  CASE pc = "check_files" -> 0
    [] pc = "read_setup_config" -> 1
    [] pc = "verify_github_token" -> 2
    [] pc = "create_github_repo" -> 3
    [] pc = "create_post" -> 4
    [] pc = "upload_probe" -> 3 + 2 * idx
    [] pc = "upload_put" -> 4 + 2 * idx
    [] pc = "set_secrets" -> 11
    [] pc = "secret_put" -> 11 + idx
    [] OTHER -> 20

\* C15: within a run the steps only move forward and every call moves to a
\* later step; a file is probed only after provisioning succeeded and written
\* only after its probe; the key is fetched only after all three writes were
\* attempted and a secret is written only after the key was fetched.
C15_StrictlySequential ==
  [][ /\ run' = run => PcRank' >= PcRank
      /\ (run' = run /\ numCalls' # numCalls) => PcRank' > PcRank
      /\ \A p \in Files :
           /\ fileProbeSt'[p] # NotIssued => (repoProbeSt' = 200 \/ postSt' = 201)
           /\ filePutSt'[p] # NotIssued => HttpStatus(fileProbeSt'[p])
           /\ (p > 1 /\ fileProbeSt'[p] # NotIssued) => HttpStatus(filePutSt'[p - 1])
      /\ keySt' # NotIssued => \A p \in Files : HttpStatus(filePutSt'[p])
      /\ \A s \in Slots : secSt'[s] # NotIssued => keySt' = 200 ]_vars

C15_Witness ==
  /\ pc = "done" /\ postSt = 201 /\ keySt = 200
  /\ \A p \in Files : HttpStatus(filePutSt[p])
  /\ \A s \in Slots : HttpStatus(secSt[s])

\* the write of path p was rejected because the path changed after the probe
Conflict(p) ==
  \/ filePutSt[p] = 409
  \/ filePutSt[p] = 422 /\ fileProbeSt[p] = 404

\* C16: a run whose write was rejected because another writer changed the
\* path between probe and write does not complete as a successful run.
C16_ConflictFailsRun ==
  (runExt > 0 /\ \E p \in Files : Conflict(p)) => pc # "done"

\* C17: after a run that halted or crashed, a second run with the same valid
\* inputs, a faithful provider and no other writer ends in done with every
\* file and secret stored, no rejected write and no duplicate creation.
C17_Resumable ==
  (run = 2 /\ prevOutcome \in {"halted", "crashed"} /\ runFaults = 0
     /\ extCount = 0 /\ filesPresent /\ Len(setup_lines) = 6 /\ tokenValid
     /\ NACL_AVAILABLE /\ Ended) =>
    /\ pc = "done"
    /\ numPost <= 1 /\ (numPost = 1 => postSt = 201)
    /\ \A p \in Files : filePutSt[p] \in {200, 201} /\ ~files[p].none
    /\ \A s \in Slots : secSt[s] \in {201, 204} /\ ~slots[s].none

\* C18: a key fetch not answered 200 ends secret provisioning: no secret
\* write is issued, and from the fetch on the run leaves the remote state
\* as it was.
C18_NoKeyNoSecrets ==
  [][ (keySt' # NotIssued /\ keySt' # 200) =>
        /\ \A s \in Slots : secSt'[s] = NotIssued
        /\ \A req \in sent' : "encrypted_value" \notin DOMAIN req.body
        /\ IF keySt' = TransportFault
             THEN pc' = "crashed" /\ setSecretsRet' = None
             ELSE setSecretsRet' = Some(FALSE)
        /\ run' = run => UNCHANGED remoteVars ]_vars

C18_Witness ==
  keySt = 500 /\ setSecretsRet = Some(FALSE) /\ \E p \in Files : ~files[p].none

\* C19: when the encryption library cannot be imported, the run ends before
\* any network call.
C19_NoSealerFailsFast ==
  ~NACL_AVAILABLE => sent = {}

\* C20: every secret write carries the key_id of the run's key fetch and a
\* value sealed under the key of that fetch, and the fetched key is not
\* changed for the rest of the run.
C20_SameKeyForAllSecrets ==
  [][ /\ \A req \in sent' :
           "encrypted_value" \in DOMAIN req.body =>
             /\ ~key'.none
             /\ req.body.key_id = key'.val.key_id
             /\ B64Decode(req.body.encrypted_value).tag = "sealed"
             /\ B64Decode(req.body.encrypted_value).pk = B64Decode(key'.val.key).v
      /\ (~key.none /\ run' = run) => key' = key
      /\ numKeyFetch' <= 1 ]_vars

C20_Witness ==
  /\ ~key.none /\ numKeyFetch = 1
  /\ \A s \in Slots : secSt[s] \in {201, 204}

====
